---- MODULE Spec2Model ----
(***************************************************************************)
(* Lockstep simulation coordinator of bevy_replicon_lockstep.              *)
(*                                                                         *)
(* One server process (id HostId) and the remote client processes Remotes. *)
(* Every process owns a SimulationTick, a LockstepGameCommandBuffer (the   *)
(* broadcast-log) and a SimulationState; the server also owns              *)
(* LockstepGameCommandsReceived (the received-log) and the disconnect      *)
(* timer of tick_server.  Client triggers of a remote client travel on     *)
(* toHost, server triggers to it on fromHost; both are ordered channels.   *)
(* A trigger the server sends is also triggered locally on the server and  *)
(* a client trigger sent by the server process is re-emitted locally: the  *)
(* observers of these local triggers run within the action that sends      *)
(* them.                                                                   *)
(*                                                                         *)
(* Times are in milliseconds; NetworkStats.rtt is in seconds in the        *)
(* source, so (rtt / 2.0).ceil() is CeilDiv(rtt_ms, 2000).                 *)
(***************************************************************************)
EXTENDS Integers, Sequences, FiniteSets, TLC

\* ------------------------------------------------------------ constants

\* The NetworkId of the host pseudo-peer and the fallback client id.
HostId == 1
\* The delay receive_commands_server uses for a sender without NetworkStats.
HostTickDelay == 3
\* SimulationSettings::default().tick_timestep, in milliseconds.
TickTimestepMs == 33
\* The largest value of the u8 disconnect timer.
U8Max == 255

\* ------------------------------------------------------------ bounds

\* The host stops ticking at MaxTick.
MaxTick == 2
\* Non-empty submissions made in one session.
MaxCmds == 1
\* The largest tick a forced ServerSendCommands carries (SpecForced).
MaxForcedTick == 4

\* The triggers in flight on one channel when a peer connects or the readiness
\* check runs.
MaxInFlight == 3
\* The connections the server accepts in one run of SpecLobby.
MaxJoins == 3
\* The largest value SIMULATION_ID_COUNTER takes.
MaxIds == 2

\* The remote clients (NetworkIds the transport assigned).
Remotes == {2, 3}
Procs == {HostId} \cup Remotes

VARIABLES
    settings,     \* SimulationSettings and ConnectionSettings.server_mode
    rtt,          \* NetworkStats.rtt of every remote client entity, in ms
    connected,    \* the NetworkIds of the entities on the server
    state,        \* State<SimulationState> of every process
    nextState,    \* NextState<SimulationState> of every process
    simTick,      \* SimulationTick of every process
    history,      \* LockstepGameCommandBuffer of every process
    received,     \* LockstepGameCommandsReceived of the server
    timer,        \* disconnect_timer: Local<u8> of tick_server
    toHost,       \* client triggers in flight, per remote sender
    fromHost,     \* server triggers in flight, per remote receiver
    unread,       \* SimulationTickUpdate events the heartbeat system has not read
    tickUpdates,  \* the SimulationTickUpdate ticks sent on every process
    panicked,     \* the processes that panicked
    nCmds,        \* the non-empty submissions made so far
    nJoins,       \* the connections the server accepted so far
    game,         \* LastProcessedTick and the SimulationIds given, per process
    link,         \* client_connected and the ClientReconnectTimers, per client
    ready,        \* ClientReady of every peer: the event and the marker component
    idCounter,    \* SIMULATION_ID_COUNTER of every process
    entities,     \* the NetworkId entities in the world of every process
    obs           \* what the last handler that ran did

vars == <<settings, rtt, connected, state, nextState, simTick, history, received,
          timer, toHost, fromHost, unread, tickUpdates, panicked, nCmds, nJoins,
          game, link, ready, idCounter, entities, obs>>

\* ------------------------------------------------------------ helpers

Max(S) == CHOOSE x \in S : \A y \in S : y <= x

CeilDiv(a, b) == (a + b - 1) \div b

\* LockstepClientCommands::default(): no peer has commands.
EmptyBundle == [p \in {} |-> <<>>]

\* A cleared tick-indexed log.
EmptyLog == [t \in {} |-> EmptyBundle]

NoObs == [kind |-> "none"]

\* LastProcessedTick::default() and no SimulationId given yet, on every process.
NoGame == [p \in Procs |-> [last_tick |-> 0, ids |-> <<>>]]

\* Every client connected, no ClientReconnectTimer spawned.
NoLink ==
    [c \in Remotes |-> [up |-> TRUE, timers |-> <<>>, drops |-> 0,
                        reconnects |-> 0, disconnects |-> <<>>,
                        id_requests |-> 0, id_responses |-> <<>>]]

\* A world without NetworkId entities.
EmptyWorld == [r \in {} |-> 0]

\* The entity of the peer with NetworkId id, with or without LocalClient.
PeerRecord(id, local) == [id |-> id, local |-> local]

\* commands.spawn(r): one more entity with the components of r.
Spawn(w, r) ==
    [x \in DOMAIN w \cup {r} |->
        IF x = r THEN (IF r \in DOMAIN w THEN w[r] + 1 ELSE 1) ELSE w[x]]

\* The entities with NetworkId id are despawned.
Despawn(w, id) == [x \in {r \in DOMAIN w : r.id # id} |-> w[x]]

\* How many entities of w are among the records R.
RECURSIVE CountIn(_, _)
CountIn(w, R) ==
    IF R \cap DOMAIN w = {} THEN 0
    ELSE LET r == CHOOSE x \in R \cap DOMAIN w : TRUE
         IN  w[r] + CountIn(w, R \ {r})

\* The entities of w with NetworkId id, and those with LocalClient.
WithId(w, id) == CountIn(w, {r \in DOMAIN w : r.id = id})
LocalClients(w) == CountIn(w, {r \in DOMAIN w : r.local})

\* The worlds of a session whose NetworkIds are conn: the server has one
\* entity for each, the host's with LocalClient; a connected client has
\* received them all and has LocalClient on its own.
RECURSIVE WorldOf(_, _)
WorldOf(conn, me) ==
    IF conn = {} THEN EmptyWorld
    ELSE LET id == CHOOSE x \in conn : TRUE
         IN  Spawn(WorldOf(conn \ {id}, me), PeerRecord(id, id = me))

WorldsOf(conn) ==
    [p \in Procs |-> IF p = HostId \/ p \in conn THEN WorldOf(conn, p) ELSE EmptyWorld]

\* log.get(t): the bundle at t, or absent.
Present(log, t) == t \in DOMAIN log

\* The empty bundle whatever the log holds.
NoBundleAt(log, t) == EmptyBundle

\* The bundle at t, the empty one when absent.
BundleAt(log, t) == IF Present(log, t) THEN log[t] ELSE EmptyBundle

\* log.len(): one past the last index.
LogLen(log) == IF DOMAIN log = {} THEN 0 ELSE Max(DOMAIN log) + 1

\* log.resize(n, v): cut to n entries, or fill the new indexes with v.
Resize(log, n, v) ==
    [t \in {k \in DOMAIN log : k < n} \cup (LogLen(log)..(n - 1)) |->
        IF t \in DOMAIN log THEN log[t] ELSE v]

\* bundle.entry(id).insert(cmds)
BundleInsert(b, id, cmds) ==
    [p \in DOMAIN b \cup {id} |-> IF p = id THEN cmds ELSE b[p]]

\* An insert that keeps what the entry already holds.
EntryKeep(log, t, id, cmds) ==
    [k \in DOMAIN log \cup {t} |->
        IF k = t /\ id \notin DOMAIN BundleAt(log, t)
        THEN BundleInsert(BundleAt(log, t), id, cmds)
        ELSE log[k]]

\* log.entry(t).or_insert(default).entry(id).insert(cmds)
EntryInsert(log, t, id, cmds) ==
    [k \in DOMAIN log \cup {t} |->
        IF k = t THEN BundleInsert(BundleAt(log, t), id, cmds) ELSE log[k]]

\* (rtt / 2.0).ceil() with rtt in seconds, r in milliseconds.
HalfRttTicks(r) == CeilDiv(r, 2000)

\* The client entities that carry NetworkStats: the remote clients.
StatsOf(conn) == conn \cap Remotes

\* Whether process p has exactly one LocalClient entity.
HasLocalClient(p) == p \in Remotes \/ settings.server_mode = "Host"

\* ToClients { mode: SendMode::Broadcast, event } for the events msgs: to
\* every connected remote client, in order.
Broadcast(q, msgs) ==
    [c \in Remotes |-> IF c \in connected THEN q[c] \o msgs ELSE q[c]]

\* The server trigger SetSimulationState(s).
SetSimulationState(s) == [type |-> "state", state |-> s]

\* ------------------------------------------------------------ observers

\* receive_commands_client: the observer of the per-submission
\* ServerSendCommands {commands, execute_tick, client_id}.
receive_commands_client(hist, m) ==
    EntryInsert(hist, m.execute_tick, m.client_id, m.commands)

\* A weaker test: any tick after the current one.
TickAfter(tick, cur) == tick > cur

\* The test of tick_client: the next tick, or any tick while sim_tick is 0.
TickInOrder(tick, cur) == tick = cur + 1 \/ cur = 0

\* tick_client: the observer of the per-tick ServerSendCommands {tick, commands},
\* as the values it leaves.  On the server only the SimulationTickUpdate is
\* sent.  On a client the buffer is resized first, then the tick is taken or
\* the process panics; a panic unwinds before the event is sent.
tick_client(isServer, cur, hist, m) ==
    LET ok == isServer \/ TickInOrder(m.tick, cur)
    IN  [history |-> IF isServer THEN hist ELSE Resize(hist, m.tick + 1, m.commands),
         simTick |-> IF ok /\ ~isServer THEN m.tick ELSE cur,
         panic |-> ~ok,
         events |-> IF ok THEN <<m.tick>> ELSE <<>>]

\* clients.get(trigger.client_entity).map_or(1, |id| id.get())
SenderId(s) == IF s \in Remotes THEN s ELSE HostId

\* The delay with a fallback of one tick for a sender without NetworkStats.
InputTickDelayOne(s) == IF s \in Remotes THEN HalfRttTicks(rtt[s]) ELSE 1

\* stats.get(trigger.client_entity).map_or(3, |s| (s.rtt / 2.0).ceil())
InputTickDelay(s) == IF s \in Remotes THEN HalfRttTicks(rtt[s]) ELSE HostTickDelay

\* tick + tick_delay + settings.base_input_tick_delay
ExecutionTick(s, issued) == issued + InputTickDelay(s) + settings.base_input_tick_delay

\* The ServerSendCommands receive_commands_server broadcasts for m of sender s.
Scheduled(s, m) ==
    [type |-> "cmd", execute_tick |-> ExecutionTick(s, m.issued_tick),
     commands |-> m.commands, client_id |-> SenderId(s)]

\* receive_commands_server, the observer of FromClient<ClientSendCommands>, run
\* on n copies of m from sender s: the received-log entry, the broadcast, and
\* receive_commands_client on the server's own buffer.
receive_commands_server(s, m, n) ==
    /\ received' = EntryInsert(received, m.issued_tick, SenderId(s), m.commands)
    /\ fromHost' = Broadcast(fromHost, [i \in 1..n |-> Scheduled(s, m)])
    /\ history' = [history EXCEPT ![HostId] = receive_commands_client(@, Scheduled(s, m))]
    /\ obs' = [kind |-> "receive_commands_server", sender |-> s,
               client_id |-> SenderId(s), issued_tick |-> m.issued_tick,
               host_tick |-> simTick[HostId],
               execute_tick |-> ExecutionTick(s, m.issued_tick),
               commands |-> m.commands, received_before |-> received,
               history_before |-> history[HostId]]

\* send_initial_commands_to_server: ClientSendCommands::default().
InitialCommands == [issued_tick |-> 0, commands |-> <<>>]

\* No OnEnter schedule ever runs.
NeverEnters(p, s) == FALSE

\* OnEnter(s) runs in the StateTransition of process p: the pending state is s
\* and differs from the current one.
Enters(p, s) == nextState[p] = s /\ state[p] # s

\* ------------------------------------------------------------ remote clients

\* One server trigger reaches remote client c and its observer runs:
\* handle_sim_state_change, receive_commands_client or tick_client.
DeliverFromHost(c) ==
    /\ c \notin panicked
    /\ fromHost[c] # <<>>
    /\ LET m == Head(fromHost[c])
           t == tick_client(FALSE, simTick[c], history[c], m)
       IN  CASE m.type = "state" ->
                  /\ nextState' = [nextState EXCEPT ![c] = m.state]
                  /\ obs' = [kind |-> "set_state", proc |-> c, state |-> m.state,
                             pending_before |-> nextState[c]]
                  /\ UNCHANGED <<simTick, history, unread, tickUpdates, panicked>>
             [] m.type = "cmd" ->
                  /\ history' = [history EXCEPT ![c] = receive_commands_client(@, m)]
                  /\ obs' = NoObs
                  /\ UNCHANGED <<nextState, simTick, unread, tickUpdates, panicked>>
             [] m.type = "tick" ->
                  /\ history' = [history EXCEPT ![c] = t.history]
                  /\ simTick' = [simTick EXCEPT ![c] = t.simTick]
                  /\ panicked' = IF t.panic THEN panicked \cup {c} ELSE panicked
                  /\ unread' = [unread EXCEPT ![c] = @ + Len(t.events)]
                  /\ tickUpdates' = [tickUpdates EXCEPT ![c] = @ \o t.events]
                  /\ obs' = [kind |-> "tick_client", proc |-> c, tick |-> m.tick,
                             commands |-> m.commands, before |-> simTick[c],
                             events_before |-> tickUpdates[c],
                             history_before |-> history[c]]
                  /\ UNCHANGED nextState
    /\ fromHost' = [fromHost EXCEPT ![c] = Tail(@)]
    /\ UNCHANGED <<entities, settings, rtt, game, link, nJoins, ready, idCounter, connected, state, received, timer, toHost, nCmds>>

\* The StateTransition schedule of remote client c: the pending NextState
\* becomes the state; on entering Setup setup_simulation runs (and the game
\* has its Setup-phase work to do before it sends ClientReadyEvent again), on
\* entering Running send_initial_commands_to_server runs.  start_simulation
\* does nothing on a client.
ClientStateTransition(c) ==
    /\ c \notin panicked
    /\ nextState[c] # "none"
    /\ state' = [state EXCEPT ![c] = nextState[c]]
    /\ nextState' = [nextState EXCEPT ![c] = "none"]
    /\ toHost' = [toHost EXCEPT
                    ![c] = IF Enters(c, "Running") /\ c \in connected
                           THEN Append(@, InitialCommands) ELSE @]
    /\ IF Enters(c, "Setup")
       THEN /\ simTick' = [simTick EXCEPT ![c] = 0]
            /\ history' = [history EXCEPT ![c] = EmptyLog]
            /\ idCounter' = [idCounter EXCEPT ![c] = 1]
            /\ game' = [game EXCEPT ![c].ids = <<>>]
            /\ ready' = [ready EXCEPT ![c] = IF @ = "removed" THEN "no" ELSE @]
       ELSE UNCHANGED <<simTick, history, idCounter, game, ready>>
    /\ obs' = [kind |-> "enter", proc |-> c, from |-> state[c], to |-> nextState[c],
               tick_before |-> simTick[c], ids_before |-> idCounter[c],
               history_before |-> history[c]]
    /\ UNCHANGED <<entities, settings, rtt, link, nJoins, connected, received, timer, fromHost, unread,
                   tickUpdates, panicked, nCmds>>

\* ticks.read(): the ticks of the SimulationTickUpdate events process p has
\* not read yet, oldest first.
UnreadTicks(p) ==
    SubSeq(tickUpdates[p], Len(tickUpdates[p]) - unread[p] + 1, Len(tickUpdates[p]))

\* send_empty_commands_to_server_on_tick on remote client c: one empty
\* ClientSendCommands per unread SimulationTickUpdate, each carrying the
\* current SimulationTick.
ClientHeartbeat(c) ==
    /\ c \notin panicked
    /\ state[c] = "Running"
    /\ unread[c] > 0
    /\ toHost' = [toHost EXCEPT
                    ![c] = IF c \in connected
                           THEN @ \o [i \in 1..unread[c] |->
                                        [issued_tick |-> simTick[c], commands |-> <<>>]]
                           ELSE @]
    /\ unread' = [unread EXCEPT ![c] = 0]
    /\ obs' = [kind |-> "heartbeat", proc |-> c,
               issued |-> [i \in 1..unread[c] |-> simTick[c]],
               events |-> UnreadTicks(c)]
    /\ UNCHANGED <<entities, settings, rtt, game, link, nJoins, ready, idCounter, connected, state, nextState, simTick, history,
                   received, timer, fromHost, tickUpdates, panicked, nCmds>>

\* send_commands of the example on remote client c: the local player's
\* commands of this frame, issued at the current SimulationTick.
ClientSubmit(c) ==
    /\ c \notin panicked
    /\ state[c] = "Running"
    /\ c \in connected
    /\ nCmds < MaxCmds
    /\ nCmds' = nCmds + 1
    /\ toHost' = [toHost EXCEPT
                    ![c] = Append(@, [issued_tick |-> simTick[c],
                                      commands |-> <<nCmds + 1>>])]
    /\ obs' = NoObs
    /\ UNCHANGED <<entities, settings, rtt, game, link, nJoins, ready, idCounter, connected, state, nextState, simTick, history,
                   received, timer, fromHost, unread, tickUpdates, panicked>>

\* ------------------------------------------------------------ server

\* A ClientSendCommands of remote client c reaches the server.
ServerReceive(c) ==
    /\ HostId \notin panicked
    /\ c \in connected
    /\ toHost[c] # <<>>
    /\ receive_commands_server(c, Head(toHost[c]), 1)
    /\ toHost' = [toHost EXCEPT ![c] = Tail(@)]
    /\ UNCHANGED <<entities, settings, rtt, game, link, nJoins, ready, idCounter, connected, state, nextState, simTick, timer,
                   unread, tickUpdates, panicked, nCmds>>

\* The StateTransition schedule of the server process.  On entering Setup
\* setup_simulation runs.  On entering Starting start_simulation runs: it
\* broadcasts SetSimulationState(Running), which handle_sim_state_change takes
\* locally, and removes ClientReady from every entity that has it.  On
\* entering Running send_initial_commands_to_server runs (in either server
\* mode) and the trigger is re-emitted locally.
ServerStateTransition ==
    /\ HostId \notin panicked
    /\ nextState[HostId] # "none"
    /\ state' = [state EXCEPT ![HostId] = nextState[HostId]]
    /\ LET entered == [kind |-> "enter", proc |-> HostId, from |-> state[HostId],
                       to |-> nextState[HostId], tick_before |-> simTick[HostId],
                       ids_before |-> idCounter[HostId],
                       history_before |-> history[HostId]]
       IN  CASE Enters(HostId, "Setup") ->
                  /\ nextState' = [nextState EXCEPT ![HostId] = "none"]
                  /\ simTick' = [simTick EXCEPT ![HostId] = 0]
                  /\ history' = [history EXCEPT ![HostId] = EmptyLog]
                  /\ received' = EmptyLog
                  /\ idCounter' = [idCounter EXCEPT ![HostId] = 1]
                  /\ game' = [game EXCEPT ![HostId].ids = <<>>]
                  /\ ready' = [ready EXCEPT ![HostId] = IF @ = "removed" THEN "no" ELSE @]
                  /\ obs' = entered
                  /\ UNCHANGED fromHost
             [] Enters(HostId, "Starting") ->
                  /\ nextState' = [nextState EXCEPT ![HostId] = "Running"]
                  /\ fromHost' = Broadcast(fromHost, <<SetSimulationState("Running")>>)
                  /\ ready' = [p \in Procs |-> IF ready[p] = "yes" THEN "removed" ELSE ready[p]]
                  /\ obs' = entered
                  /\ UNCHANGED <<simTick, history, received, idCounter, game>>
             [] Enters(HostId, "Running") ->
                  /\ nextState' = [nextState EXCEPT ![HostId] = "none"]
                  /\ receive_commands_server(HostId, InitialCommands, 1)
                  /\ UNCHANGED <<simTick, idCounter, game, ready>>
             [] OTHER ->
                  /\ nextState' = [nextState EXCEPT ![HostId] = "none"]
                  /\ obs' = entered
                  /\ UNCHANGED <<simTick, history, received, fromHost, idCounter, game,
                                 ready>>
    /\ UNCHANGED <<entities, settings, rtt, link, nJoins, connected, timer, toHost, unread, tickUpdates,
                   panicked, nCmds>>

\* send_empty_commands_to_server_on_tick on the server process: nothing without
\* a LocalClient (dedicated server), else one empty ClientSendCommands per
\* unread SimulationTickUpdate, re-emitted locally.
ServerHeartbeat ==
    /\ HostId \notin panicked
    /\ state[HostId] = "Running"
    /\ HasLocalClient(HostId)
    /\ unread[HostId] > 0
    /\ receive_commands_server(HostId, [issued_tick |-> simTick[HostId],
                                        commands |-> <<>>], unread[HostId])
    /\ unread' = [unread EXCEPT ![HostId] = 0]
    /\ UNCHANGED <<entities, settings, rtt, game, link, nJoins, ready, idCounter, connected, state, nextState, simTick, timer,
                   toHost, tickUpdates, panicked, nCmds>>

\* send_commands of the example on the server process (host-plus-client mode).
ServerSubmit ==
    /\ HostId \notin panicked
    /\ state[HostId] = "Running"
    /\ HasLocalClient(HostId)
    /\ nCmds < MaxCmds
    /\ nCmds' = nCmds + 1
    /\ receive_commands_server(HostId, [issued_tick |-> simTick[HostId],
                                        commands |-> <<nCmds + 1>>], 1)
    /\ UNCHANGED <<entities, settings, rtt, game, link, nJoins, ready, idCounter, connected, state, nextState, simTick, timer,
                   toHost, unread, tickUpdates, panicked>>

\* The transport drops remote client c: its entity, with its ClientReady, is
\* despawned on the server and what was in flight is lost.
ClientLeft(c) ==
    /\ HostId \notin panicked
    /\ state[HostId] \in {"Setup", "Running"}
    /\ c \in connected \cap Remotes
    /\ connected' = connected \ {c}
    /\ toHost' = [toHost EXCEPT ![c] = <<>>]
    /\ fromHost' = [fromHost EXCEPT ![c] = <<>>]
    /\ ready' = [ready EXCEPT ![c] = IF @ = "no" THEN "no" ELSE "removed"]
    /\ entities' = [entities EXCEPT ![HostId] = Despawn(@, c)]
    /\ obs' = NoObs
    /\ UNCHANGED <<settings, rtt, game, link, nJoins, idCounter, state, nextState, simTick, history,
                   received, timer, unread, tickUpdates, panicked, nCmds>>

\* tick_delay of tick_server: 0 without NetworkStats, else the largest rtt
\* halved and rounded up plus connection_check_tick_delay.
CheckTickDelay ==
    IF StatsOf(connected) = {} THEN 0
    ELSE HalfRttTicks(Max({rtt[c] : c \in StatsOf(connected)}))
         + settings.connection_check_tick_delay

\* tick_to_check of tick_server.
TickToCheck(tick) == IF CheckTickDelay > tick THEN 0 ELSE tick - CheckTickDelay

\* clients_for_tick.iter().len() == clients.iter().len()
GateOpen(slot) == Cardinality(DOMAIN slot) = Cardinality(connected)

\* The peers the Paused branch of tick_server reports: the keys of the slot
\* that the slot does not contain.
ReportedDisconnects(slot) == {c \in DOMAIN slot : c \notin DOMAIN slot}

\* *disconnect_timer += 1 on a u8: at 255 a debug build panics and a release
\* build wraps to 0.
TimerIncrements(t) ==
    IF t < U8Max THEN {[panic |-> FALSE, value |-> t + 1]}
    ELSE {[panic |-> TRUE, value |-> t], [panic |-> FALSE, value |-> 0]}

\* tick_server: one run of the system, in state Running on the server.  The
\* ServerSendCommands of an advance is also triggered locally: tick_client on
\* the server sends the SimulationTickUpdate.
tick_server ==
    /\ HostId \notin panicked
    /\ state[HostId] = "Running"
    /\ simTick[HostId] < MaxTick
    /\ LET tick == simTick[HostId]
           ttc == TickToCheck(tick)
           hasSlot == Present(received, ttc)
           open == hasSlot /\ GateOpen(received[ttc])
           new == tick + 1
           hist == history[HostId]
           msg == [type |-> "tick", tick |-> new, commands |-> BundleAt(hist, new)]
           grown == IF ~Present(hist, new) /\ LogLen(hist) <= new
                    THEN Resize(hist, new, EmptyBundle) ELSE hist
           local == tick_client(TRUE, new, grown, msg)
           base == [kind |-> "tick_server", tick_to_check |-> ttc, has_slot |-> hasSlot,
                    slot_keys |-> IF hasSlot THEN DOMAIN received[ttc] ELSE {},
                    tick_before |-> tick, timer_before |-> timer]
       IN  IF open
           THEN /\ simTick' = [simTick EXCEPT ![HostId] = local.simTick]
                /\ timer' = 0
                /\ history' = [history EXCEPT ![HostId] = local.history]
                /\ fromHost' = Broadcast(fromHost, <<msg>>)
                /\ unread' = [unread EXCEPT ![HostId] = @ + Len(local.events)]
                /\ tickUpdates' = [tickUpdates EXCEPT ![HostId] = @ \o local.events]
                /\ obs' = base @@ [paused |-> FALSE, overflow |-> FALSE,
                                   disconnects |-> {}, sent |-> <<msg>>]
                /\ UNCHANGED <<nextState, panicked>>
           ELSE IF hasSlot
           THEN \E inc \in TimerIncrements(timer) :
                  LET pause == ~inc.panic /\ inc.value > settings.disconnect_tick_threshold
                  IN  /\ timer' = IF pause THEN 0 ELSE inc.value
                      /\ panicked' = IF inc.panic THEN panicked \cup {HostId} ELSE panicked
                      /\ nextState' = [nextState EXCEPT
                                         ![HostId] = IF pause THEN "Paused" ELSE @]
                      /\ obs' = base @@ [paused |-> pause, overflow |-> timer = U8Max,
                                         disconnects |->
                                            IF pause THEN ReportedDisconnects(received[ttc])
                                            ELSE {},
                                         sent |-> <<>>]
                      /\ UNCHANGED <<simTick, history, fromHost, unread, tickUpdates>>
           ELSE /\ obs' = base @@ [paused |-> FALSE, overflow |-> FALSE,
                                   disconnects |-> {}, sent |-> <<>>]
                /\ UNCHANGED <<simTick, timer, history, fromHost, nextState, panicked,
                               unread, tickUpdates>>
    /\ UNCHANGED <<entities, settings, rtt, game, link, nJoins, ready, idCounter, connected, state, received, toHost, nCmds>>

\* ------------------------------------------------------------ connection and readiness

\* No channel holds MaxInFlight triggers yet.
ChannelsShort ==
    \A r \in Remotes : Len(fromHost[r]) < MaxInFlight /\ Len(toHost[r]) < MaxInFlight

\* A test that finds no LocalClient whatever the world holds.
NeverSingle(w) == TRUE

\* local_client.get_single().is_err(): not exactly one LocalClient entity.
NoSingleLocalClient(w) == LocalClients(w) # 1

\* on_client_connect on the server, the observer of OnAdd NetworkId, for the
\* entity of remote client c and, in Host mode without a LocalClient, for the
\* host entity it spawns.  Each run broadcasts SetSimulationState(Setup) when
\* the NetworkIds are num_players many, whatever the state; the trigger is
\* taken locally by handle_sim_state_change.  The client process has set
\* Connecting at startup.
on_client_connect(c) ==
    /\ HostId \notin panicked
    /\ c \in Remotes \ connected
    /\ nJoins < MaxJoins
    /\ ChannelsShort
    /\ LET first == connected \cup {c}
           spawnHost == /\ settings.server_mode = "Host"
                        /\ NoSingleLocalClient(entities[HostId])
           joined == Spawn(entities[HostId], PeerRecord(c, FALSE))
           second == IF spawnHost THEN first \cup {HostId} ELSE first
           runs == (IF Cardinality(first) = settings.num_players THEN 1 ELSE 0)
                   + (IF spawnHost /\ Cardinality(second) = settings.num_players
                      THEN 1 ELSE 0)
           msgs == [i \in 1..runs |-> SetSimulationState("Setup")]
       IN  /\ connected' = second
           /\ entities' = [entities EXCEPT
                             ![HostId] = IF spawnHost
                                         THEN Spawn(joined, PeerRecord(HostId, TRUE))
                                         ELSE joined]
           /\ fromHost' = [r \in Remotes |->
                             IF r \in second THEN fromHost[r] \o msgs ELSE fromHost[r]]
           /\ nextState' = [nextState EXCEPT ![HostId] = IF runs > 0 THEN "Setup" ELSE @]
           /\ obs' = [kind |-> "on_client_connect", proc |-> c,
                      state_before |-> state[HostId], sent |-> msgs]
    /\ state' = [state EXCEPT ![c] = IF @ = "None" THEN "Connecting" ELSE @]
    /\ nJoins' = nJoins + 1
    /\ UNCHANGED <<settings, rtt, game, link, ready, idCounter, simTick, history, received, timer,
                   toHost, unread, tickUpdates, panicked, nCmds>>

\* setup_game of the example on process p: in Setup, with a LocalClient, the
\* ClientReadyEvent is sent once the Setup-phase work is done.  The event of
\* the server process is re-emitted locally and on_client_ready marks the
\* host's LocalClient entity.
setup_game(p) ==
    /\ p \notin panicked
    /\ p \in connected
    /\ state[p] = "Setup"
    /\ ready[p] = "no"
    /\ ready' = [ready EXCEPT ![p] = IF p = HostId THEN "yes" ELSE "sent"]
    /\ obs' = NoObs
    /\ UNCHANGED <<entities, settings, rtt, game, link, nJoins, idCounter, connected, state, nextState, simTick,
                   history, received, timer, toHost, fromHost, unread, tickUpdates,
                   panicked, nCmds>>

\* on_client_ready: the ClientReadyEvent of remote client c reaches the server
\* and its entity gets ClientReady.
on_client_ready(c) ==
    /\ HostId \notin panicked
    /\ c \in connected
    /\ ready[c] = "sent"
    /\ ready' = [ready EXCEPT ![c] = "yes"]
    /\ obs' = NoObs
    /\ UNCHANGED <<entities, settings, rtt, game, link, nJoins, idCounter, connected, state, nextState, simTick,
                   history, received, timer, toHost, fromHost, unread, tickUpdates,
                   panicked, nCmds>>

\* The entities with a NetworkId and without ClientReady.
NotReady == {p \in connected : ready[p] # "yes"}

\* check_all_clients_ready: one run of the system, in state Setup on the
\* server.  It panics unless the NetworkIds are num_players many, and
\* broadcasts SetSimulationState(Starting) when none lacks ClientReady.
check_all_clients_ready ==
    /\ HostId \notin panicked
    /\ state[HostId] = "Setup"
    /\ ChannelsShort
    /\ LET panic == Cardinality(connected) # settings.num_players
           send == ~panic /\ NotReady = {}
           msgs == IF send THEN <<SetSimulationState("Starting")>> ELSE <<>>
       IN  /\ panicked' = IF panic THEN panicked \cup {HostId} ELSE panicked
           /\ fromHost' = Broadcast(fromHost, msgs)
           /\ nextState' = [nextState EXCEPT ![HostId] = IF send THEN "Starting" ELSE @]
           /\ obs' = [kind |-> "check_all_clients_ready", panic |-> panic,
                      sent |-> msgs]
    /\ UNCHANGED <<entities, settings, rtt, game, link, nJoins, ready, idCounter, connected, state, simTick, history,
                   received, timer, toHost, unread, tickUpdates, nCmds>>

\* SimulationId::new() on process p, called by process_tick_commands for a
\* spawn command: SIMULATION_ID_COUNTER.fetch_add(1).
NewSimulationId(p) ==
    /\ p \notin panicked
    /\ state[p] = "Running"
    /\ idCounter[p] < MaxIds
    /\ idCounter' = [idCounter EXCEPT ![p] = @ + 1]
    /\ obs' = NoObs
    /\ UNCHANGED <<entities, settings, rtt, game, link, nJoins, ready, connected, state, nextState, simTick, history,
                   received, timer, toHost, fromHost, unread, tickUpdates, panicked,
                   nCmds>>

\* ------------------------------------------------------------ sessions

\* The settings of a session.
Settings(mode, base, check, threshold) ==
    [server_mode |-> mode, base_input_tick_delay |-> base,
     connection_check_tick_delay |-> check, disconnect_tick_threshold |-> threshold,
     num_players |-> IF mode = "Host" THEN 2 ELSE 1]

\* The state after start_simulation ran on the server: setup_simulation has
\* cleared the logs and the tick on every process, every process of the
\* session is in Starting and SetSimulationState(Running) has been broadcast
\* (and was triggered locally on the server).
SessionStart(conn) ==
    /\ connected = conn
    /\ state = [p \in Procs |-> IF p = HostId \/ p \in conn THEN "Starting" ELSE "None"]
    /\ nextState = [p \in Procs |-> IF p = HostId THEN "Running" ELSE "none"]
    /\ simTick = [p \in Procs |-> 0]
    /\ history = [p \in Procs |-> EmptyLog]
    /\ received = EmptyLog
    /\ timer = 0
    /\ toHost = [c \in Remotes |-> <<>>]
    /\ fromHost = [c \in Remotes |->
                     IF c \in conn THEN <<[type |-> "state", state |-> "Running"]>>
                     ELSE <<>>]
    /\ unread = [p \in Procs |-> 0]
    /\ tickUpdates = [p \in Procs |-> <<>>]
    /\ panicked = {}
    /\ nCmds = 0
    /\ nJoins = 0
    /\ game = NoGame
    /\ link = NoLink
    /\ entities = WorldsOf(connected)
    /\ ready = [p \in Procs |-> IF p \in connected THEN "removed" ELSE "no"]
    /\ idCounter = [p \in Procs |-> 1]
    /\ obs = NoObs

\* The sessions of Spec: a host with one remote client (the example's
\* num_players = 2) and a dedicated server with one remote client, each with
\* two settings and round trip times.
Sessions ==
    { [settings |-> Settings("Host", 1, 1, 1), rtt |-> 0, conn |-> {1, 2}],
      [settings |-> Settings("Host", 0, 0, 1), rtt |-> 100, conn |-> {1, 2}],
      [settings |-> Settings("Dedicated", 0, 0, 1), rtt |-> 0, conn |-> {2}],
      [settings |-> Settings("Dedicated", 1, 1, 1), rtt |-> 100, conn |-> {2}] }

Init ==
    \E s \in Sessions :
        /\ settings = s.settings
        /\ rtt = [c \in Remotes |-> s.rtt]
        /\ SessionStart(s.conn)

Next ==
    \/ \E c \in Remotes : DeliverFromHost(c)
    \/ \E c \in Remotes : ClientStateTransition(c)
    \/ \E c \in Remotes : ClientHeartbeat(c)
    \/ \E c \in Remotes : ClientSubmit(c)
    \/ \E c \in Remotes : ServerReceive(c)
    \/ \E c \in Remotes : ClientLeft(c)
    \/ ServerStateTransition
    \/ ServerHeartbeat
    \/ ServerSubmit
    \/ tick_server

Spec == Init /\ [][Next]_vars

\* ------------------------------------------------------------ the terms of the specification

\* The commands of a bundle: a peer with an empty list has no commands.
Commands(b) == [p \in {q \in DOMAIN b : b[q] # <<>>} |-> b[p]]

\* Delta of the specification: ceil(max_peer_rtt / 2 / tick_timestep) +
\* connection_check_tick_delay.
SpecCheckDelay ==
    CeilDiv(Max({rtt[c] : c \in StatsOf(connected)} \cup {0}), 2 * TickTimestepMs)
    + settings.connection_check_tick_delay

\* T_check of the specification for host tick T.
SpecTickToCheck(T) == IF SpecCheckDelay > T THEN 0 ELSE T - SpecCheckDelay

\* The gate of the specification at host tick T: received-log[T_check] has an
\* entry for each connected peer.
SpecGate(T) ==
    /\ Present(received, SpecTickToCheck(T))
    /\ connected \subseteq DOMAIN received[SpecTickToCheck(T)]

\* The last handler that ran was tick_server / receive_commands_server on a
\* non-empty submission.
TickServerRan == obs.kind = "tick_server"
Advanced == TickServerRan /\ simTick[HostId] = obs.tick_before + 1
SubmissionReceived == obs.kind = "receive_commands_server" /\ obs.commands # <<>>

\* ------------------------------------------------------------ C1

\* C1: for every tick T that the host has broadcast and a connected client has
\* ingested, broadcast-log[T] holds the same per-peer commands on the host and
\* on that client.
C1_SameBundleOnEveryPeer ==
    \A c \in (connected \cap Remotes) \ panicked :
        \A T \in 1..simTick[c] :
            T <= simTick[HostId] =>
                Commands(BundleAt(history[c], T)) = Commands(BundleAt(history[HostId], T))

\* ------------------------------------------------------------ C2

\* C2: the host tick advances from T to T + 1 only if received-log[T_check]
\* has an entry for each connected peer.
C2_AdvanceOnlyWithEveryPeer ==
    Advanced => SpecGate(obs.tick_before)

\* ------------------------------------------------------------ C3

\* C3: a Running host step at tick T in which received-log[T_check] has an
\* entry for every connected peer (entries of other peers or not) advances
\* the tick by exactly one, resets the timer to 0 and broadcasts exactly one
\* ServerSendCommands carrying the new tick.  Stated for the steps with a
\* connected peer in which tick_server checks the T_check of the specification.
C3_AdvanceWheneverEveryPeerPresent ==
    (TickServerRan /\ connected # {} /\ SpecGate(obs.tick_before)
                   /\ obs.tick_to_check = SpecTickToCheck(obs.tick_before)) =>
        /\ simTick[HostId] = obs.tick_before + 1
        /\ timer = 0
        /\ Len(obs.sent) = 1
        /\ obs.sent[1].tick = obs.tick_before + 1

\* ------------------------------------------------------------ C4

\* C4: every accepted non-empty submission is scheduled strictly after the
\* tick it was issued at.
C4_ExecuteAfterIssued ==
    SubmissionReceived => obs.execute_tick > obs.issued_tick

\* ------------------------------------------------------------ C5

\* C5: a non-empty submission of a remote peer is scheduled at the host tick at
\* receipt + ceil((rtt / 2) / tick_timestep) + base_input_tick_delay.
C5_RemoteExecuteTick ==
    (SubmissionReceived /\ obs.sender \in Remotes) =>
        obs.execute_tick = obs.host_tick
                           + CeilDiv(rtt[obs.sender], 2 * TickTimestepMs)
                           + settings.base_input_tick_delay

\* ------------------------------------------------------------ C6

\* C6: a non-empty submission of the host's own local client is recorded
\* under peer id 1 in received-log[issued_tick], where issued_tick is the host
\* tick at submission, and is scheduled 3 ticks plus base_input_tick_delay
\* later: at broadcast-log[issued_tick + 3 + base_input_tick_delay] of the
\* host, and in the ServerSendCommands sent to every connected client.
C6_HostSubmissionDelayThree ==
    (SubmissionReceived /\ obs.sender = HostId) =>
        /\ obs.client_id = 1
        /\ obs.issued_tick = obs.host_tick
        /\ obs.execute_tick = obs.host_tick + 3 + settings.base_input_tick_delay
        /\ Present(received, obs.issued_tick)
        /\ 1 \in DOMAIN received[obs.issued_tick]
        /\ received[obs.issued_tick][1] = obs.commands
        /\ Present(history[HostId], obs.execute_tick)
        /\ 1 \in DOMAIN history[HostId][obs.execute_tick]
        /\ history[HostId][obs.execute_tick][1] = obs.commands
        /\ \A c \in connected \cap Remotes :
              /\ fromHost[c] # <<>>
              /\ fromHost[c][Len(fromHost[c])] =
                    [type |-> "cmd", execute_tick |-> obs.execute_tick,
                     commands |-> obs.commands, client_id |-> 1]

\* A non-empty submission of the host's local client was received while a
\* remote client is connected, with the default base_input_tick_delay.
C6_Witness ==
    /\ SubmissionReceived
    /\ obs.sender = HostId
    /\ settings.base_input_tick_delay = 1
    /\ obs.host_tick = 1
    /\ obs.execute_tick = 5
    /\ 2 \in connected

\* C6 as the specification states it: the delay of the host pseudo-peer is
\* one tick, execute_tick = host tick at submission + 1 + base_input_tick_delay.
C6_HostSubmissionDelayOne ==
    (SubmissionReceived /\ obs.sender = HostId) =>
        /\ obs.client_id = 1
        /\ obs.execute_tick = obs.host_tick + 1 + settings.base_input_tick_delay

\* ------------------------------------------------------------ C7

\* C7: a Running host step in which the gate fails and the host tick stays,
\* received-log having no slot for T_check included, adds one to the
\* disconnect timer (the step that pauses resets it).
C7_FailedGateCounts ==
    (TickServerRan /\ ~SpecGate(obs.tick_before) /\ simTick[HostId] = obs.tick_before) =>
        timer = obs.timer_before + 1 \/ obs.paused

\* ------------------------------------------------------------ C9

\* C9: the host step that pauses emits ClientDisconnect(P) for exactly the
\* connected peers P absent from received-log[T_check].
C9_DisconnectsReported ==
    (TickServerRan /\ obs.paused) =>
        obs.disconnects = connected \ obs.slot_keys

\* ------------------------------------------------------------ C8

\* The values of disconnect_tick_threshold of SpecTimer: the ends of the u8
\* range, the default and their neighbours.
Thresholds == {0, 1, 20, 254, 255}

\* A host session with one remote client whose submissions may never arrive,
\* for every threshold of Thresholds.
InitTimer ==
    \E th \in Thresholds :
        /\ settings = Settings("Host", 1, 1, th)
        /\ rtt = [c \in Remotes |-> 0]
        /\ SessionStart({HostId, 2})

NextTimer ==
    \/ \E c \in Remotes : DeliverFromHost(c)
    \/ \E c \in Remotes : ClientStateTransition(c)
    \/ \E c \in Remotes : ServerReceive(c)
    \/ ServerStateTransition
    \/ tick_server

SpecTimer == InitTimer /\ [][NextTimer]_vars

\* C8: a failed gate check on an existing slot pauses the simulation exactly
\* when the consecutive failed checks, this one included, exceed
\* disconnect_tick_threshold, and the u8 timer never overflows.
C8_PauseExactlyPastThreshold ==
    (TickServerRan /\ obs.has_slot /\ simTick[HostId] = obs.tick_before) =>
        /\ ~obs.overflow
        /\ obs.paused <=> (obs.timer_before + 1 > settings.disconnect_tick_threshold)

\* ------------------------------------------------------------ C10

\* The bundles a forced ServerSendCommands carries.
ForcedBundles == {EmptyBundle, [p \in {2} |-> <<1>>]}

\* A running client right after setup_simulation, no tick received yet.
InitForced ==
    /\ settings = Settings("Host", 1, 1, 20)
    /\ rtt = [c \in Remotes |-> 0]
    /\ connected = {HostId, 2}
    /\ state = [p \in Procs |-> IF p \in connected THEN "Running" ELSE "None"]
    /\ nextState = [p \in Procs |-> "none"]
    /\ simTick = [p \in Procs |-> 0]
    /\ history = [p \in Procs |-> EmptyLog]
    /\ received = EmptyLog
    /\ timer = 0
    /\ toHost = [c \in Remotes |-> <<>>]
    /\ fromHost = [c \in Remotes |-> <<>>]
    /\ unread = [p \in Procs |-> 0]
    /\ tickUpdates = [p \in Procs |-> <<>>]
    /\ panicked = {}
    /\ nCmds = 0
    /\ nJoins = 0
    /\ game = NoGame
    /\ link = NoLink
    /\ entities = WorldsOf(connected)
    /\ ready = [p \in Procs |-> IF p \in connected THEN "removed" ELSE "no"]
    /\ idCounter = [p \in Procs |-> 1]
    /\ obs = NoObs

\* A ServerSendCommands {tick, commands} with any tick a server sends (tick_server
\* sends sim_tick after adding one to it, so tick >= 1) is put on the channel
\* to client c, in any order of ticks.
ForcedTick(c) ==
    /\ c \in connected
    /\ fromHost[c] = <<>>
    /\ \E t \in 1..MaxForcedTick, b \in ForcedBundles :
          fromHost' = [fromHost EXCEPT
                         ![c] = <<[type |-> "tick", tick |-> t, commands |-> b]>>]
    /\ obs' = NoObs
    /\ UNCHANGED <<entities, settings, rtt, game, link, nJoins, ready, idCounter, connected, state, nextState, simTick, history,
                   received, timer, toHost, unread, tickUpdates, panicked, nCmds>>

NextForced ==
    \/ \E c \in Remotes : ForcedTick(c)
    \/ \E c \in Remotes : DeliverFromHost(c)

SpecForced == InitForced /\ [][NextForced]_vars

\* The tick tick_client just handled is the one after the client's tick, or
\* the first one since the reset.
NextOrFirst == obs.tick = obs.before + 1 \/ obs.events_before = <<>>

C11_TickInstalled ==
    (obs.kind = "tick_client" /\ obs.proc \notin panicked) =>
        /\ Present(history[obs.proc], obs.tick)
        /\ history[obs.proc][obs.tick] = obs.commands
        /\ simTick[obs.proc] = obs.tick
        /\ tickUpdates[obs.proc] = Append(obs.events_before, obs.tick)
        /\ \A k \in (DOMAIN history[obs.proc] \cup DOMAIN obs.history_before) \ {obs.tick} :
              Commands(BundleAt(history[obs.proc], k))
                  = Commands(BundleAt(obs.history_before, k))

\* ------------------------------------------------------------ C12

\* C12: the heartbeats a client sends in one run of the heartbeat system carry
\* the ticks of the SimulationTickUpdates it read, one issued_tick per tick
\* reached, also when several ticks were taken since the last run.
C12_HeartbeatPerTick ==
    obs.kind = "heartbeat" => obs.issued = obs.events

\* ------------------------------------------------------------ C13

\* C13: the host tick stays at 0 until received-log[0] holds the initial
\* submission of every connected peer.
C13_TickZeroUntilPrimed ==
    (Advanced /\ obs.tick_before = 0) =>
        /\ Present(received, 0)
        /\ connected \subseteq DOMAIN received[0]

\* ------------------------------------------------------------ C14

\* C14: the step of the host that advances to tick T sends to every connected
\* client one ServerSendCommands for T whose bundle is the host's
\* broadcast-log[T] when that entry is present and the empty bundle when it
\* is absent.
C14_BroadcastLogEntrySent ==
    [][simTick'[HostId] = simTick[HostId] + 1 =>
          LET T == simTick[HostId] + 1
              pulse == [type |-> "tick", tick |-> T,
                        commands |-> IF T \in DOMAIN history[HostId]
                                     THEN history[HostId][T] ELSE EmptyBundle]
          IN  \A c \in connected \cap Remotes : fromHost'[c] = Append(fromHost[c], pulse)]_vars

\* The host advanced to a tick for which a command of peer 2 was scheduled
\* and a client is connected to receive it.
C14_Witness ==
    /\ Advanced
    /\ 2 \in connected
    /\ 2 \in DOMAIN obs.sent[1].commands
    /\ obs.sent[1].commands[2] = <<1>>

\* ------------------------------------------------------------ C15

\* C15: while the host is Running its broadcast-log has an entry at every
\* index 1..SimulationTick.
C15_HostLogPopulated ==
    state[HostId] = "Running" =>
        \A k \in 1..simTick[HostId] : Present(history[HostId], k)

\* ------------------------------------------------------------ the lobby

\* The sessions of SpecLobby: server mode and num_players.
Lobbies == {<<"Host", 2>>, <<"Dedicated", 2>>}

\* What a session that ran to MaxTick leaves in a log.
UsedLog == [t \in 0..MaxTick |-> EmptyBundle]

\* The server has started and waits in Connecting; no client has connected.
\* The processes are fresh, or they all ran a session before and still hold
\* its tick, logs and SIMULATION_ID_COUNTER.
InitLobby ==
    /\ \E l \in Lobbies :
          settings = [Settings(l[1], 1, 1, 20) EXCEPT !.num_players = l[2]]
    /\ \E used \in BOOLEAN :
          /\ simTick = [p \in Procs |-> IF used THEN MaxTick ELSE 0]
          /\ history = [p \in Procs |-> IF used THEN UsedLog ELSE EmptyLog]
          /\ received = IF used THEN UsedLog ELSE EmptyLog
          /\ idCounter = [p \in Procs |-> IF used THEN MaxIds ELSE 1]
    /\ rtt = [c \in Remotes |-> 0]
    /\ connected = {}
    /\ state = [p \in Procs |-> IF p = HostId THEN "Connecting" ELSE "None"]
    /\ nextState = [p \in Procs |-> "none"]
    /\ timer = 0
    /\ toHost = [c \in Remotes |-> <<>>]
    /\ fromHost = [c \in Remotes |-> <<>>]
    /\ unread = [p \in Procs |-> 0]
    /\ tickUpdates = [p \in Procs |-> <<>>]
    /\ panicked = {}
    /\ nCmds = 0
    /\ nJoins = 0
    /\ game = NoGame
    /\ link = NoLink
    /\ entities = WorldsOf(connected)
    /\ ready = [p \in Procs |-> "no"]
    /\ obs = NoObs

\* Connecting, readiness and the state changes up to Running, where the host
\* player may submit; the host does not tick.
NextLobby ==
    \/ \E c \in Remotes : on_client_connect(c)
    \/ \E c \in Remotes : ClientLeft(c)
    \/ \E p \in Procs : setup_game(p)
    \/ \E c \in Remotes : on_client_ready(c)
    \/ check_all_clients_ready
    \/ \E c \in Remotes : DeliverFromHost(c)
    \/ \E c \in Remotes : ClientStateTransition(c)
    \/ ServerStateTransition
    \/ \E p \in Procs : NewSimulationId(p)
    \/ ServerSubmit

SpecLobby == InitLobby /\ [][NextLobby]_vars

\* ------------------------------------------------------------ C16

\* The server sends SetSimulationState(s) in this step: to a remote client, or
\* to itself.
Sends(s) ==
    \/ \E c \in Remotes :
          /\ Len(fromHost'[c]) > Len(fromHost[c])
          /\ fromHost'[c][Len(fromHost'[c])] = SetSimulationState(s)
    \/ nextState'[HostId] = s /\ nextState[HostId] # s

\* No peer has had its ClientReady removed since it last entered Setup.
FirstSetup == \A p \in Procs : ready[p] # "removed"

\* Some peer of a session of at most num_players peers has no ClientReady on
\* its entity, and none has lost one since it entered Setup.
Withheld ==
    /\ FirstSetup
    /\ Cardinality(connected) <= settings.num_players
    /\ \E p \in connected : ready[p] # "yes"

\* The broadcast of C16: a step of the server that sends SetSimulationState(Starting)
\* is taken with ClientReady on the entity of every connected peer, the host's
\* included.
StartingOnlyWhenAllReady ==
    [][Sends("Starting") => \A p \in connected : ready[p] = "yes"]_vars

\* C16: while a peer of the session withholds its ClientReady, no
\* process is in Starting or Running, none is about to enter them, and no
\* SetSimulationState(Starting) is in flight.
C16_NoStartWhileWithheld ==
    Withheld =>
        /\ \A q \in Procs : state[q] \notin {"Starting", "Running"}
        /\ \A q \in Procs : nextState[q] \notin {"Starting", "Running"}
        /\ \A c \in Remotes : \A i \in 1..Len(fromHost[c]) :
              fromHost[c][i] # SetSimulationState("Starting")

\* ------------------------------------------------------------ C17

\* C17: when check_all_clients_ready runs on the host in Setup and every
\* connected peer is marked ready, the host broadcasts
\* SetSimulationState(Starting): the first step of the start the claim
\* promises once every connected peer is ready.
C17_AllReadyStarts ==
    (/\ obs.kind = "check_all_clients_ready"
     /\ connected # {}
     /\ \A p \in connected : ready[p] = "yes") =>
        /\ obs.sent = <<SetSimulationState("Starting")>>
        /\ HostId \notin panicked

\* ------------------------------------------------------------ C18

\* C18: the server sends SetSimulationState(Setup) only in a step it takes in
\* state Connecting.
C18_SetupOnlyFromConnecting ==
    [][Sends("Setup") => state[HostId] = "Connecting"]_vars

\* ------------------------------------------------------------ C19

\* Process p has run OnEnter(s) in the step just taken.
Entered(s) == obs.kind = "enter" /\ obs.to = s /\ obs.from # s

C20_NoPendingStateLost ==
    obs.kind = "set_state" =>
        obs.pending_before = "none" \/ obs.pending_before = obs.state

\* ------------------------------------------------------------ C21

\* The peers with an entry at tick k of a log.
PeersAt(log, k) == DOMAIN BundleAt(log, k)

\* C21: after receive_commands_server has run for ClientSendCommands
\* {issued_tick t, commands c} of peer P, received-log[t] has an entry for P
\* holding c, empty or not, and the entries of every other peer and tick are
\* the ones the log held before, no more and no fewer.
C21_SubmissionRecorded ==
    obs.kind = "receive_commands_server" =>
        LET t == obs.issued_tick
            P == obs.sender
            old == obs.received_before
        IN  /\ Present(received, t)
            /\ P \in DOMAIN received[t]
            /\ received[t][P] = obs.commands
            /\ \A k \in DOMAIN received \cup DOMAIN old :
                  /\ PeersAt(received, k) \ (IF k = t THEN {P} ELSE {}) =
                     PeersAt(old, k) \ (IF k = t THEN {P} ELSE {})
                  /\ \A q \in PeersAt(old, k) :
                        (k # t \/ q # P) => received[k][q] = old[k][q]
            /\ DOMAIN received = DOMAIN old \cup {t}

\* A submission of remote client 2 has replaced the commands the log held for
\* the same tick and peer, next to an entry of the host.
C21_Witness ==
    /\ obs.kind = "receive_commands_server"
    /\ obs.sender = 2
    /\ Present(obs.received_before, obs.issued_tick)
    /\ 2 \in DOMAIN obs.received_before[obs.issued_tick]
    /\ obs.received_before[obs.issued_tick][2] # obs.commands
    /\ HostId \in DOMAIN obs.received_before[obs.issued_tick]

\* What the broadcast-log held for peer id at tick t: nothing when absent.
HeldFor(log, t, id) ==
    IF id \in PeersAt(log, t) THEN log[t][id] ELSE <<>>

\* C23: after the host has processed a submission of a peer, the bundle of the
\* submission's execute_tick holds, for that peer, what it held before
\* followed by the submitted commands: no later submission mapped to the same
\* execute_tick, an empty one included, removes or replaces earlier commands.
C23_SubmissionsAccumulate ==
    obs.kind = "receive_commands_server" =>
        HeldFor(history[HostId], obs.execute_tick, obs.client_id)
            = HeldFor(obs.history_before, obs.execute_tick, obs.client_id)
                  \o obs.commands

\* ------------------------------------------------------------ serialization

\* The number of values of a u8 and of a u16.
TwoPow8 == 256
TwoPow16 == 65536

\* A Vec of n commands, the commands numbered 1..n in the order they were
\* pushed.
CommandVec(n) == [len |-> n]

\* The first h commands of a Vec, in order.
Take(v, h) == [len |-> h]

\* The command counts, around the limits of the u16 length prefix.
WireLens == {0, 1, TwoPow16 - 1, TwoPow16, TwoPow16 + 1}

\* The SimTicks a frame carries.
WireTicks == {0, TwoPow16}

\* The ClientSendCommands events.
ClientEvents ==
    {[commands |-> CommandVec(n), issued_tick |-> t] : n \in WireLens, t \in WireTicks}

\* The per-tick ServerSendCommands events: a tick and a map from peer to Vec.
ServerEvents ==
    {[tick |-> t, commands |-> b] :
        t \in WireTicks,
        b \in UNION {[D -> {CommandVec(n) : n \in WireLens}] : D \in SUBSET Procs}}

\* HashMap::iter(): the keys in an order the map chooses.
IterOrders(b) ==
    {o \in [1..Cardinality(DOMAIN b) -> DOMAIN b] :
        \A i, j \in DOMAIN o : i # j => o[i] # o[j]}

\* The length prefix the serializer writes for a Vec: len() as u16.
LenPrefix(v) == v.len % TwoPow16

\* serialize_client_send_commands: the length as u16, the commands, the tick.
serialize_client_send_commands(e) ==
    <<[u16 |-> LenPrefix(e.commands)], [commands |-> e.commands],
      [u32 |-> e.issued_tick]>>

\* deserialize_client_send_commands: the outcomes of reading a frame.  With a
\* prefix smaller than the Vec written, the commands left over are read as the
\* tick: an error, or whatever tick their bytes spell.
deserialize_client_send_commands(f) ==
    IF f[1].u16 = f[2].commands.len
    THEN {[ok |-> TRUE, event |-> [commands |-> Take(f[2].commands, f[1].u16),
                                   issued_tick |-> f[3].u32]]}
    ELSE {[ok |-> FALSE]} \cup
         {[ok |-> TRUE, event |-> [commands |-> Take(f[2].commands, f[1].u16),
                                   issued_tick |-> t]] : t \in WireTicks}

\* The part of a server frame for the peers o[i..], in that order.
RECURSIVE PeerFields(_, _, _)
PeerFields(b, o, i) ==
    IF i > Len(o) THEN <<>>
    ELSE <<[u64 |-> o[i]], [u16 |-> LenPrefix(b[o[i]])], [commands |-> b[o[i]]]>>
         \o PeerFields(b, o, i + 1)

\* serialize_server_send_commands with the map iterated in order o: the
\* number of peers as u8, per peer its id, the length as u16 and the commands,
\* then the tick.
serialize_server_send_commands(e, o) ==
    <<[u8 |-> Cardinality(DOMAIN e.commands) % TwoPow8]>>
    \o PeerFields(e.commands, o, 1) \o <<[u32 |-> e.tick]>>

\* The peers of a server frame whose fields are read as written.
ReadPeers(f) ==
    LET n == f[1].u8
        good(i) == f[3 * i].u16 = f[3 * i + 1].commands.len
        last == IF \A i \in 1..n : good(i) THEN n
                ELSE CHOOSE i \in 1..n : ~good(i) /\ \A j \in 1..(i - 1) : good(j)
    IN  [whole |-> \A i \in 1..n : good(i),
         commands |-> [p \in {f[3 * i - 1].u64 : i \in 1..last} |->
                         LET i == CHOOSE k \in 1..last : f[3 * k - 1].u64 = p
                         IN  Take(f[3 * i + 1].commands, f[3 * i].u16)]]

\* deserialize_server_send_commands: the outcomes of reading a frame.  After a
\* prefix smaller than the Vec written the rest of the frame is misread: an
\* error, or an event with what was read so far and some tick.
deserialize_server_send_commands(f) ==
    LET r == ReadPeers(f)
    IN  IF r.whole
        THEN {[ok |-> TRUE, event |-> [tick |-> f[Len(f)].u32, commands |-> r.commands]]}
        ELSE {[ok |-> FALSE]} \cup
             {[ok |-> TRUE, event |-> [tick |-> t, commands |-> r.commands]] :
                 t \in WireTicks}

\* Everything but obs.
quiet == <<settings, rtt, connected, state, nextState, simTick, history, received,
           timer, toHost, fromHost, unread, tickUpdates, panicked, nCmds, nJoins,
           game, link, ready, idCounter, entities>>

\* No session: the server has not been started and no client has connected.
Quiet ==
    /\ settings = Settings("Host", 1, 1, 20)
    /\ rtt = [c \in Remotes |-> 0]
    /\ connected = {}
    /\ state = [p \in Procs |-> "None"]
    /\ nextState = [p \in Procs |-> "none"]
    /\ simTick = [p \in Procs |-> 0]
    /\ history = [p \in Procs |-> EmptyLog]
    /\ received = EmptyLog
    /\ timer = 0
    /\ toHost = [c \in Remotes |-> <<>>]
    /\ fromHost = [c \in Remotes |-> <<>>]
    /\ unread = [p \in Procs |-> 0]
    /\ tickUpdates = [p \in Procs |-> <<>>]
    /\ panicked = {}
    /\ nCmds = 0
    /\ nJoins = 0
    /\ game = NoGame
    /\ link = NoLink
    /\ entities = WorldsOf(connected)
    /\ ready = [p \in Procs |-> "no"]
    /\ idCounter = [p \in Procs |-> 1]

\* An event is about to be sent.
InitWire ==
    /\ Quiet
    /\ \/ \E e \in ClientEvents : obs = [kind |-> "client_event", event |-> e]
       \/ \E e \in ServerEvents : obs = [kind |-> "server_event", event |-> e]

\* A client serializes the ClientSendCommands.
SerializeClient ==
    /\ obs.kind = "client_event"
    /\ obs' = [kind |-> "client_frame", event |-> obs.event,
               frame |-> serialize_client_send_commands(obs.event)]
    /\ UNCHANGED quiet

\* The server reads the frame a client wrote.
DeserializeClient ==
    /\ obs.kind = "client_frame"
    /\ \E r \in deserialize_client_send_commands(obs.frame) :
          obs' = [kind |-> "client_read", event |-> obs.event, result |-> r]
    /\ UNCHANGED quiet

\* The server serializes the ServerSendCommands, its map iterated in some order.
SerializeServer ==
    /\ obs.kind = "server_event"
    /\ \E o \in IterOrders(obs.event.commands) :
          obs' = [kind |-> "server_frame", event |-> obs.event, order |-> o,
                  frame |-> serialize_server_send_commands(obs.event, o)]
    /\ UNCHANGED quiet

\* A client reads the frame the server wrote.
DeserializeServer ==
    /\ obs.kind = "server_frame"
    /\ \E r \in deserialize_server_send_commands(obs.frame) :
          obs' = [kind |-> "server_read", event |-> obs.event, result |-> r]
    /\ UNCHANGED quiet

NextWire == SerializeClient \/ DeserializeClient \/ SerializeServer \/ DeserializeServer

SpecWire == InitWire /\ [][NextWire]_vars

\* ------------------------------------------------------------ C22

\* C22: the peers of a bundle are written to a ServerSendCommands frame in
\* ascending order of their ids.
C22_PeersAscending ==
    obs.kind = "server_frame" =>
        \A i, j \in DOMAIN obs.order : i < j => obs.order[i] < obs.order[j]

\* ------------------------------------------------------------ C26

\* C26: reading the frame of a ServerSendCommands gives the event written: the
\* same tick, the same peers and the same commands per peer.
C26_ServerRoundTrip ==
    obs.kind = "server_read" => obs.result.ok /\ obs.result.event = obs.event

\* ------------------------------------------------------------ C27

\* C27: reading the frame of a ClientSendCommands gives the event written: the
\* same commands in the same order and the same issued_tick.
C27_ClientRoundTrip ==
    obs.kind = "client_read" => obs.result.ok /\ obs.result.event = obs.event

\* ------------------------------------------------------------ command execution

\* The largest 32-bit integer with the sign bit clear.
I32Max == 2147483647

\* A u32 is held as the 32-bit integer with the same bits, so the values from
\* 2^31 up read as negatives and u32::MAX reads as -1.
U32Max == -1

\* a < b as u32 values.
LessU32(a, b) == IF (a < 0) = (b < 0) THEN a < b ELSE b < 0

\* The value fetch_add(1) leaves in an AtomicU32: it wraps around on overflow.
WrappingAdd1(c) == IF c = I32Max THEN -I32Max - 1 ELSE c + 1

\* The values n consecutive calls of SimulationId::new() return when the
\* counter holds c.
RECURSIVE FetchAdds(_, _)
FetchAdds(c, n) == IF n = 0 THEN <<>> ELSE <<c>> \o FetchAdds(WrappingAdd1(c), n - 1)

\* The counter after n calls of SimulationId::new().
RECURSIVE CounterAfter(_, _)
CounterAfter(c, n) == IF n = 0 THEN c ELSE CounterAfter(WrappingAdd1(c), n - 1)

\* The last tick of the command buffers the executions are drawn from.
MaxExecTick == 2

\* The peers whose commands the buffers hold.
ExecPeers == {HostId, 2}

\* What one peer submitted for one tick: SpawnUnit and ApplyForce commands.
ExecCommands == {<<>>, <<"spawn">>, <<"force", "spawn">>}

\* The command buffers: a bundle for each tick from 1 to MaxExecTick.
ExecLogs ==
    LET Bundles == UNION {[P -> ExecCommands] : P \in SUBSET ExecPeers}
    IN  [1..MaxExecTick -> Bundles]

\* The counter values the executions start from: 1 as setup_simulation
\* leaves it, and the value two allocations before u32::MAX.
ExecCounters == {1, U32Max - 2}

\* The commands of bundle b of tick t in the order the two loops of
\* process_tick_commands visit them: the peers in order o, the commands of a
\* peer in the order of its Vec.
RECURSIVE Visited(_, _, _)
Visited(b, o, t) ==
    IF o = <<>> THEN <<>>
    ELSE [i \in 1..Len(b[Head(o)]) |->
             [tick |-> t, peer |-> Head(o), index |-> i, cmd |-> b[Head(o)][i]]]
         \o Visited(b, Tail(o), t)

\* SpawnUnit::from_reflect(cmd) is Some.
IsSpawn(v) == v.cmd = "spawn"

\* The SimulationIds given to the spawn commands among the visited ones, the
\* counter holding c.
Spawned(visited, c) ==
    LET spawns == SelectSeq(visited, IsSpawn)
        ids == FetchAdds(c, Len(spawns))
    IN  [i \in 1..Len(spawns) |->
            [tick |-> spawns[i].tick, peer |-> spawns[i].peer,
             index |-> spawns[i].index, id |-> ids[i]]]

\* new_tick_ready: the buffer has a bundle for the tick after the last
\* processed one.
new_tick_ready(p) == Present(history[p], game[p].last_tick + 1)

\* update_last_tick and process_tick_commands of the example on process p,
\* chained under new_tick_ready: the bundle of the next tick is iterated, in
\* the order its map gives, and every spawn command takes a new SimulationId.
process_tick_commands(p) ==
    /\ p \notin panicked
    /\ state[p] = "Running"
    /\ new_tick_ready(p)
    /\ LET t == game[p].last_tick + 1
           b == history[p][t]
       IN  \E o \in IterOrders(b) :
              LET s == Spawned(Visited(b, o, t), idCounter[p])
              IN  /\ game' = [game EXCEPT ![p] = [last_tick |-> t, ids |-> @.ids \o s]]
                  /\ idCounter' = [idCounter EXCEPT ![p] = CounterAfter(@, Len(s))]
                  /\ obs' = [kind |-> "process_tick_commands", proc |-> p, tick |-> t,
                             order |-> o, counter_before |-> idCounter[p],
                             spawned |-> s]
    /\ UNCHANGED <<entities, settings, rtt, connected, state, nextState, simTick, history,
                   received, timer, toHost, fromHost, unread, tickUpdates, panicked,
                   nCmds, nJoins, link, ready>>

\* Two peers Running with the same command buffer and the same counter, no
\* tick processed yet.
InitExec ==
    /\ settings = Settings("Host", 1, 1, 20)
    /\ rtt = [c \in Remotes |-> 0]
    /\ connected = ExecPeers
    /\ state = [p \in Procs |-> IF p \in ExecPeers THEN "Running" ELSE "None"]
    /\ nextState = [p \in Procs |-> "none"]
    /\ simTick = [p \in Procs |-> IF p \in ExecPeers THEN MaxExecTick ELSE 0]
    /\ \E log \in ExecLogs :
          history = [p \in Procs |-> IF p \in ExecPeers THEN log ELSE EmptyLog]
    /\ received = EmptyLog
    /\ timer = 0
    /\ toHost = [c \in Remotes |-> <<>>]
    /\ fromHost = [c \in Remotes |-> <<>>]
    /\ unread = [p \in Procs |-> 0]
    /\ tickUpdates = [p \in Procs |-> <<>>]
    /\ panicked = {}
    /\ nCmds = 0
    /\ nJoins = 0
    /\ game = NoGame
    /\ link = NoLink
    /\ entities = WorldsOf(connected)
    /\ ready = [p \in Procs |-> "no"]
    /\ \E c \in ExecCounters : idCounter = [p \in Procs |-> c]
    /\ obs = NoObs

NextExec == \E p \in ExecPeers : process_tick_commands(p)

SpecExec == InitExec /\ [][NextExec]_vars

\* ------------------------------------------------------------ C24

\* C24: two peers that started from the same counter and have processed the
\* same ticks hold the same counter, and a spawn command both have executed
\* has the same SimulationId on both.
C24_SameIds ==
    \A p, q \in ExecPeers :
        /\ game[p].last_tick = game[q].last_tick => idCounter[p] = idCounter[q]
        /\ \A i \in DOMAIN game[p].ids, j \in DOMAIN game[q].ids :
              LET x == game[p].ids[i]
                  y == game[q].ids[j]
              IN  (x.tick = y.tick /\ x.peer = y.peer /\ x.index = y.index)
                      => x.id = y.id

\* ------------------------------------------------------------ C25

\* C25: the SimulationIds one run of process_tick_commands hands out are
\* never 0 and each is greater than the one before it; the first one after a
\* reset is 1.
C25_IdsIncreaseFromOne ==
    obs.kind = "process_tick_commands" =>
        /\ \A i \in DOMAIN obs.spawned :
              /\ obs.spawned[i].id # 0
              /\ i > 1 => LessU32(obs.spawned[i - 1].id, obs.spawned[i].id)
        /\ (obs.counter_before = 1 /\ obs.spawned # <<>>) => obs.spawned[1].id = 1

\* ------------------------------------------------------------ reconnecting

\* ConnectionSettings.reconnect_timer of the sessions, in ms.
ReconnectTimerMs == 66

\* The transport reports at most MaxDrops disconnects to a client.
MaxDrops == 2

\* At most MaxTimers ClientReconnectTimer entities are spawned.
MaxTimers == 2

\* The clients whose transport drops.
Droppers == {2}

\* The states a client in a session with an open connection is in.
SessionStates == {"Connecting", "Setup", "Starting", "Running"}

\* The two arms of handle_local_client_disconnect that return at once.
Returns(s) == s \in {"Ending", "None", "Connecting"}

\* timer.elapsed() >= settings.reconnect_timer
Elapsed(ms) == ms >= ReconnectTimerMs

\* handle_local_client_disconnect on client c, run in FixedPreUpdate while the
\* process is no server and its client is not connected.  In Reconnecting the
\* single ClientReconnectTimer is ticked by the fixed timestep (single_mut
\* panics unless there is exactly one) and, once elapsed, ClientDisconnect is
\* triggered, None is set and the timer despawned.  In Setup, Starting,
\* Running or Paused, Reconnecting is set, ClientReconnect triggered and a
\* timer spawned.
handle_local_client_disconnect(c) ==
    /\ c \notin panicked
    /\ ~link[c].up
    /\ LET s == state[c]
           ts == link[c].timers
           ran(arm) == [kind |-> "handle_local_client_disconnect", proc |-> c,
                        arm |-> arm, state_before |-> s, timers_before |-> ts,
                        pending_before |-> nextState[c]]
       IN  CASE Returns(s) ->
                  /\ obs' = ran("return")
                  /\ UNCHANGED <<link, nextState, panicked>>
             [] ~Returns(s) /\ s = "Reconnecting" /\ Len(ts) # 1 ->
                  /\ panicked' = panicked \cup {c}
                  /\ obs' = ran("panic")
                  /\ UNCHANGED <<link, nextState>>
             [] ~Returns(s) /\ s = "Reconnecting" /\ Len(ts) = 1
                  /\ Elapsed(ts[1] + TickTimestepMs) ->
                  /\ nextState' = [nextState EXCEPT ![c] = "None"]
                  /\ link' = [link EXCEPT ![c].timers = <<>>,
                                          ![c].disconnects = Append(@, c)]
                  /\ obs' = ran("expire")
                  /\ UNCHANGED panicked
             [] ~Returns(s) /\ s = "Reconnecting" /\ Len(ts) = 1
                  /\ ~Elapsed(ts[1] + TickTimestepMs) ->
                  /\ link' = [link EXCEPT ![c].timers = <<ts[1] + TickTimestepMs>>]
                  /\ obs' = ran("tick")
                  /\ UNCHANGED <<nextState, panicked>>
             [] ~Returns(s) /\ s # "Reconnecting" ->
                  /\ Len(ts) < MaxTimers
                  /\ nextState' = [nextState EXCEPT ![c] = "Reconnecting"]
                  /\ link' = [link EXCEPT ![c].timers = Append(@, 0),
                                          ![c].reconnects = @ + 1]
                  /\ obs' = ran("reconnect")
                  /\ UNCHANGED panicked
    /\ UNCHANGED <<entities, settings, rtt, connected, state, simTick, history, received, timer,
                   toHost, fromHost, unread, tickUpdates, nCmds, nJoins, game, ready,
                   idCounter>>

\* The transport of client c reports the connection lost: client_connected
\* turns false and what was in flight is gone.
Disconnected(c) ==
    /\ c \notin panicked
    /\ link[c].up
    /\ link[c].drops < MaxDrops
    /\ link' = [link EXCEPT ![c].up = FALSE, ![c].drops = @ + 1,
                            ![c].reconnects = 0, ![c].disconnects = <<>>]
    /\ toHost' = [toHost EXCEPT ![c] = <<>>]
    /\ fromHost' = [fromHost EXCEPT ![c] = <<>>]
    /\ obs' = [kind |-> "disconnected", proc |-> c]
    /\ UNCHANGED <<entities, settings, rtt, connected, state, nextState, simTick, history,
                   received, timer, unread, tickUpdates, panicked, nCmds, nJoins, game,
                   ready, idCounter>>

\* The transport of client c is connected again.  Nothing on the client
\* reacts; the server sets the session up again, and its broadcasts of Setup
\* (on_client_connect), Starting (check_all_clients_ready) and Running
\* (start_simulation) are on their way.
Reconnected(c) ==
    /\ c \notin panicked
    /\ ~link[c].up
    /\ link' = [link EXCEPT ![c].up = TRUE]
    /\ fromHost' = [fromHost EXCEPT
                      ![c] = <<SetSimulationState("Setup"), SetSimulationState("Starting"),
                               SetSimulationState("Running")>>]
    /\ obs' = [kind |-> "reconnected", proc |-> c]
    /\ UNCHANGED <<entities, settings, rtt, connected, state, nextState, simTick, history,
                   received, timer, toHost, unread, tickUpdates, panicked, nCmds, nJoins,
                   game, ready, idCounter>>

\* A session with the clients connected, each process in one of the states of
\* a session.
InitReconnect ==
    /\ settings = Settings("Host", 1, 1, 20)
    /\ rtt = [c \in Remotes |-> 0]
    /\ connected = {HostId} \cup Droppers
    /\ \E s \in SessionStates :
          state = [p \in Procs |-> IF p \in connected THEN s ELSE "None"]
    /\ nextState = [p \in Procs |-> "none"]
    /\ simTick = [p \in Procs |-> 0]
    /\ history = [p \in Procs |-> EmptyLog]
    /\ received = EmptyLog
    /\ timer = 0
    /\ toHost = [c \in Remotes |-> <<>>]
    /\ fromHost = [c \in Remotes |-> <<>>]
    /\ unread = [p \in Procs |-> 0]
    /\ tickUpdates = [p \in Procs |-> <<>>]
    /\ panicked = {}
    /\ nCmds = 0
    /\ nJoins = 0
    /\ game = NoGame
    /\ link = NoLink
    /\ entities = WorldsOf(connected)
    /\ ready = [p \in Procs |-> "no"]
    /\ idCounter = [p \in Procs |-> 1]
    /\ obs = NoObs

NextReconnect ==
    \/ \E c \in Droppers : Disconnected(c)
    \/ \E c \in Droppers : Reconnected(c)
    \/ \E c \in Droppers : handle_local_client_disconnect(c)
    \/ \E c \in Droppers : DeliverFromHost(c)
    \/ \E c \in Droppers : ClientStateTransition(c)

SpecReconnect == InitReconnect /\ [][NextReconnect]_vars

\* A run of handle_local_client_disconnect on a client.
Handled(arm) == obs.kind = "handle_local_client_disconnect" /\ obs.arm = arm

\* ------------------------------------------------------------ C28

\* C28: a run of handle_local_client_disconnect that sets Reconnecting found
\* the client in Running, and after it ClientReconnect has been triggered once
\* since the transport reported the disconnect and one ClientReconnectTimer
\* exists, at zero.
C28_ReconnectOnceFromRunning ==
    Handled("reconnect") =>
        /\ obs.state_before = "Running"
        /\ link[obs.proc].reconnects = 1
        /\ link[obs.proc].timers = <<0>>

\* ------------------------------------------------------------ C29

\* C29: a run of handle_local_client_disconnect in Reconnecting ticks the one
\* timer; when the timer has reached reconnect_timer it sets None, has
\* triggered ClientDisconnect for the client's own id once and leaves no timer;
\* before that it does not set None.
C29_ExpiryLeavesForNone ==
    (obs.kind = "handle_local_client_disconnect" /\ obs.state_before = "Reconnecting") =>
        LET c == obs.proc
        IN  /\ obs.arm \in {"tick", "expire"}
            /\ obs.arm = "expire" =>
                  /\ nextState[c] = "None"
                  /\ link[c].disconnects = <<c>>
                  /\ link[c].timers = <<>>
                  /\ Elapsed(obs.timers_before[1] + TickTimestepMs)
            /\ obs.arm = "tick" =>
                  /\ nextState[c] # "None"
                  /\ link[c].disconnects = <<>>
                  /\ ~Elapsed(link[c].timers[1])

\* ------------------------------------------------------------ C30

\* The last tick_client run on a client refused the tick as out of order.
Refused ==
    /\ obs.kind = "tick_client"
    /\ ~TickInOrder(obs.tick, obs.before)

\* C30: when tick_client refuses a tick as out of order, the client's
\* SimulationTick and command buffer are what they were before the message
\* and no SimulationTickUpdate has been sent for it.
C30_RefusedTickLeavesNoTrace ==
    Refused =>
        /\ obs.proc \in panicked
        /\ simTick[obs.proc] = obs.before
        /\ history[obs.proc] = obs.history_before
        /\ tickUpdates[obs.proc] = obs.events_before

\* ------------------------------------------------------------ connecting

\* How the server of a session was started: by start_server of the example,
\* which spawns (LocalClient, NetworkId 1) and whose main sets
\* ServerMode::Host, or by an application that spawns no entity.
ConnectSessions ==
    { [mode |-> "Host", host_spawned |-> TRUE],
      [mode |-> "Host", host_spawned |-> FALSE],
      [mode |-> "Dedicated", host_spawned |-> FALSE] }

\* The NetworkIds on the server once it has been started.
start_server(session) == IF session.host_spawned THEN {HostId} ELSE {}

\* The sequence q without its i-th element.
RemoveAt(q, i) == SubSeq(q, 1, i - 1) \o SubSeq(q, i + 1, Len(q))

\* insert(LocalClient) on the entities of w with NetworkId id.
InsertLocalClient(w, id) ==
    LET others == Despawn(w, id)
        n == WithId(w, id)
    IN  [x \in DOMAIN others \cup {PeerRecord(id, TRUE)} |->
            IF x = PeerRecord(id, TRUE) THEN n ELSE others[x]]

\* The replicated NetworkId entity of peer id reaches client c, and
\* on_client_connect, the observer of OnAdd NetworkId, runs on the client: it
\* returns for the host's id and sends LocalClientIdRequestEvent unless an
\* entity has LocalClient.
Replicate(c, id) ==
    /\ c \notin panicked
    /\ c \in connected
    /\ id \in connected
    /\ WithId(entities[c], id) = 0
    /\ entities' = [entities EXCEPT ![c] = Spawn(@, PeerRecord(id, FALSE))]
    /\ LET asks == id # HostId /\ LocalClients(entities[c]) = 0
       IN  /\ link' = [link EXCEPT ![c].id_requests = IF asks THEN @ + 1 ELSE @]
           /\ obs' = [kind |-> "replicate", proc |-> c, id |-> id, asks |-> asks]
    /\ UNCHANGED <<settings, rtt, connected, state, nextState, simTick, history,
                   received, timer, toHost, fromHost, unread, tickUpdates, panicked,
                   nCmds, nJoins, game, ready, idCounter>>

\* on_client_requested_id on the server: the LocalClientIdResponseEvent with
\* the NetworkId of the requesting client's entity is sent to that client.
on_client_requested_id(c) ==
    /\ HostId \notin panicked
    /\ c \in connected
    /\ link[c].id_requests > 0
    /\ link' = [link EXCEPT ![c].id_requests = @ - 1,
                            ![c].id_responses = Append(@, c)]
    /\ obs' = [kind |-> "on_client_requested_id", proc |-> c]
    /\ UNCHANGED <<entities, settings, rtt, connected, state, nextState, simTick,
                   history, received, timer, toHost, fromHost, unread, tickUpdates,
                   panicked, nCmds, nJoins, game, ready, idCounter>>

\* on_received_local_client_id on client c, for any of the responses on the
\* unordered channel: the entity with that NetworkId receives LocalClient; the
\* observer panics when no entity has it.
on_received_local_client_id(c) ==
    /\ c \notin panicked
    /\ \E i \in DOMAIN link[c].id_responses :
          LET id == link[c].id_responses[i]
              found == WithId(entities[c], id) > 0
          IN  /\ link' = [link EXCEPT ![c].id_responses = RemoveAt(@, i)]
              /\ entities' = [entities EXCEPT
                                ![c] = IF found THEN InsertLocalClient(@, id) ELSE @]
              /\ panicked' = IF found THEN panicked ELSE panicked \cup {c}
              /\ obs' = [kind |-> "on_received_local_client_id", proc |-> c,
                         id |-> id, found |-> found, world_before |-> entities[c]]
    /\ UNCHANGED <<settings, rtt, connected, state, nextState, simTick, history,
                   received, timer, toHost, fromHost, unread, tickUpdates, nCmds,
                   nJoins, game, ready, idCounter>>

\* A started server waiting in Connecting; no client has connected.
InitConnect ==
    /\ \E session \in ConnectSessions :
          /\ settings = Settings(session.mode, 1, 1, 20)
          /\ connected = start_server(session)
    /\ rtt = [c \in Remotes |-> 0]
    /\ state = [p \in Procs |-> IF p = HostId THEN "Connecting" ELSE "None"]
    /\ nextState = [p \in Procs |-> "none"]
    /\ simTick = [p \in Procs |-> 0]
    /\ history = [p \in Procs |-> EmptyLog]
    /\ received = EmptyLog
    /\ timer = 0
    /\ toHost = [c \in Remotes |-> <<>>]
    /\ fromHost = [c \in Remotes |-> <<>>]
    /\ unread = [p \in Procs |-> 0]
    /\ tickUpdates = [p \in Procs |-> <<>>]
    /\ panicked = {}
    /\ nCmds = 0
    /\ nJoins = 0
    /\ game = NoGame
    /\ link = NoLink
    /\ entities = WorldsOf(connected)
    /\ ready = [p \in Procs |-> "no"]
    /\ idCounter = [p \in Procs |-> 1]
    /\ obs = NoObs

NextConnect ==
    \/ \E c \in Remotes : on_client_connect(c)
    \/ \E c \in Remotes, id \in Procs : Replicate(c, id)
    \/ \E c \in Remotes : on_client_requested_id(c)
    \/ \E c \in Remotes : on_received_local_client_id(c)

SpecConnect == InitConnect /\ [][NextConnect]_vars

\* ------------------------------------------------------------ C31

C32_HandshakeIdempotent ==
    obs.kind = "on_received_local_client_id" =>
        LET w == entities[obs.proc]
        IN  /\ obs.proc \notin panicked
            /\ LocalClients(w) <= 1
            /\ \A r \in DOMAIN w : r.local => r.id = obs.id
            /\ PeerRecord(obs.id, TRUE) \in DOMAIN obs.world_before
                   => w = obs.world_before

\* ------------------------------------------------------------ C33

\* C33: when the server has processed an empty submission, its command
\* buffer is what it was before: the heartbeat left no entry in it.
C33_HeartbeatOnlyRecorded ==
    (obs.kind = "receive_commands_server" /\ obs.commands = <<>>) =>
        history[HostId] = obs.history_before

\* ------------------------------------------------------------ C34

\* C34: when tick_client has taken a tick on a client, the command buffer is
\* at least as long as before, a lookup at its length finds nothing, and
\* every index below the tick that the run created holds the empty bundle.
C34_LogGrowsWithEmptyBundles ==
    (obs.kind = "tick_client" /\ obs.proc \notin panicked) =>
        LET old == obs.history_before
            new == history[obs.proc]
        IN  /\ LogLen(new) >= LogLen(old)
            /\ ~Present(new, LogLen(new))
            /\ \A k \in DOMAIN new \ DOMAIN old :
                  k < obs.tick => new[k] = EmptyBundle

\* ------------------------------------------------------------ C35

\* C35: every non-empty submission the server accepts is scheduled at an
\* execute_tick greater than the server's SimulationTick at that moment.
C35_ExecuteAfterHostTick ==
    SubmissionReceived => obs.execute_tick > obs.host_tick

\* ------------------------------------------------------------ C36

\* The largest tick up to which ReceivedCommands holds a submission of peer
\* id at every tick from 0 on; -1 when it holds none at tick 0.
RECURSIVE RecordedFrom(_, _, _)
RecordedFrom(log, id, t) ==
    IF id \in PeersAt(log, t) THEN RecordedFrom(log, id, t + 1) ELSE t - 1

RecordedThrough(log, id) == RecordedFrom(log, id, 0)

\* C36: while no client has left (the tick delay of tick_server is constant)
\* and the server is Running, its SimulationTick is at most the tick delay
\* plus one ahead of the tick through which every connected peer's
\* submissions are recorded without a gap.
C36_HostLeadBounded ==
    (state[HostId] = "Running" /\ connected \cap Remotes # {}) =>
        \A id \in connected :
            simTick[HostId] <= CheckTickDelay + 1 + RecordedThrough(received, id)

\* ------------------------------------------------------------ C37

\* Every trigger sent so far has been delivered and handled: no channel holds
\* a trigger, no process has a pending NextState, and every process that
\* answers SimulationTickUpdate with a heartbeat has read its events.
Delivered ==
    /\ \A c \in Remotes : fromHost[c] = <<>> /\ toHost[c] = <<>>
    /\ \A p \in connected \cup {HostId} : nextState[p] = "none"
    /\ \A c \in connected \cap Remotes : unread[c] = 0
    /\ HasLocalClient(HostId) => unread[HostId] = 0

\* tick_server in a FixedPostUpdate run by which the network has delivered
\* everything that was sent before.
TimelyTick == Delivered /\ tick_server

\* A session in which no client leaves and the latency is covered.
NextLive ==
    \/ \E c \in Remotes : DeliverFromHost(c)
    \/ \E c \in Remotes : ClientStateTransition(c)
    \/ \E c \in Remotes : ClientHeartbeat(c)
    \/ \E c \in Remotes : ClientSubmit(c)
    \/ \E c \in Remotes : ServerReceive(c)
    \/ ServerStateTransition
    \/ ServerHeartbeat
    \/ ServerSubmit
    \/ TimelyTick

\* The schedules run on every frame and the transport delivers: every step
\* of delivery, of a state transition, of a heartbeat system and of
\* tick_server that stays possible is taken.  No player has to issue commands.
Scheduling ==
    /\ \A c \in Remotes : WF_vars(DeliverFromHost(c))
    /\ \A c \in Remotes : WF_vars(ClientStateTransition(c))
    /\ \A c \in Remotes : WF_vars(ClientHeartbeat(c))
    /\ \A c \in Remotes : WF_vars(ServerReceive(c))
    /\ WF_vars(ServerStateTransition)
    /\ WF_vars(ServerHeartbeat)
    /\ WF_vars(TimelyTick)

SpecLive == Init /\ [][NextLive]_vars /\ Scheduling

\* The ticks of the SimulationTickUpdate events process p has sent.
TicksOf(p) == {tickUpdates[p][i] : i \in 1..Len(tickUpdates[p])}

\* C37: in a session without departures and with timely delivery the server
\* is never Paused, every key of every ReceivedCommands slot is the id of a
\* connected peer, and eventually the server has reached every tick up to
\* MaxTick and every process of the session has sent the SimulationTickUpdate
\* of each of them.
C37_LoopNeverStalls ==
    /\ [](state[HostId] # "Paused")
    /\ [](\A k \in DOMAIN received : PeersAt(received, k) \subseteq connected)
    /\ <>(/\ simTick[HostId] = MaxTick
          /\ \A p \in connected \cup {HostId} : 1..MaxTick \subseteq TicksOf(p))

====
